---- MODULE Spec2Model ----
(***************************************************************************)
(* whispr: push-to-talk capture engine (src-tauri/src/audio.rs) and the    *)
(* session controller in the hotkey callback (src-tauri/src/main.rs).      *)
(*                                                                         *)
(* Two threads of control are modelled:                                    *)
(*   - the hotkey handler (hk_pc), which runs the press branch             *)
(*     (main.rs 175-188) and the release branch (main.rs 189-262);         *)
(*   - the cpal input callback of the open stream (cb_pc), audio.rs        *)
(*     233-286.                                                            *)
(* The handler is split exactly where the callback can interleave with it: *)
(* inside start_capture between the buffer clear (audio.rs 228) and the    *)
(* replacement of self.stream (audio.rs 173), and inside stop_capture      *)
(* between is_capturing = false (audio.rs 183) and the drop of the stream  *)
(* (audio.rs 186-192).  Dropping a cpal Stream frees the callback closure, *)
(* so it returns only when no callback of that stream is running.          *)
(*                                                                         *)
(* Amplitudes are integers in units of 0.01 (so the default threshold 0.01 *)
(* is 1); the values of Amps are even, which keeps the stereo average      *)
(* (L + R) / 2.0 exact.  Instants are ticks of one second.                 *)
(***************************************************************************)
EXTENDS Integers, Sequences, FiniteSets, TLC

\* ---------------------------------------------------------------- bounds
\* MaxStarts: start_capture calls per behaviour.  MaxTime: last clock tick.
\* MaxBuf: samples the buffer may hold.  MaxBlock: samples per delivered block.
\* MaxPermits: cap on the available permits (the success path of a release is
\* not taken at the cap).  MinSilenceRun: min_silence_duration, scaled down
\* from the default of 1000 samples (audio.rs 46).
MaxStarts == 2
MaxTime == 1
MaxBuf == 2
MaxBlock == 1
MaxPermits == 2
MinSilenceRun == 2
MaxGateLen == 5
MaxMixLen == 5
MaxChannels == 4
MaxHostDevices == 2

\* ------------------------------------------------------ program constants
MIN_RECORDING_DURATION == 1
InitialPermits == 1
DesiredSampleRate == 16000
DesiredChannels == 1
DefaultThreshold == 1

\* Option<T>: None is the empty sequence, Some(x) the one-element sequence.
None == <<>>
Some(x) == <<x>>
Value(o) == o[1]
\* No "status-change" has been emitted yet.
NoStatus == "none"

\* Value of the variable pure while the program itself runs.
NoPure == [kind |-> "none"]

Amps == {0, 2}

\* Native formats of the input devices the host may offer.
Devices == { [rate |-> 16000, channels |-> 1], [rate |-> 48000, channels |-> 2] }

BlocksOfLen(n) == [1..n -> Amps]
Blocks == UNION { BlocksOfLen(n) : n \in 1..MaxBlock }

VARIABLES
    \* AppState (main.rs 48-54)
    recording_semaphore,  \* available permits of the tokio Semaphore
    permit_held,          \* a SemaphorePermit (_permit) is alive in the press branch
    recording_start,      \* Option<Instant>
    overlay_visible,      \* the overlay window is shown
    \* AudioManager (audio.rs 51-60)
    input_device,         \* native format of the selected device
    stream,               \* None, or Some(number of the start_capture that opened it)
    is_capturing,
    wav_writer,           \* None, or Some(samples written to the open WAV file)
    start_time,           \* AudioManager::_start_time
    silence_config,
    captured_audio,       \* VecDeque<f32>
    \* state captured by the callback closure of the open stream
    silence_counter,
    is_in_silence,
    \* position and locals of the running callback invocation
    cb_pc,
    cb_data,              \* the delivered block
    cb_keep,              \* samples_to_keep
    cb_tag,               \* number of start_capture calls begun when the block arrived
    \* hotkey handler position
    hk_pc,
    \* environment and observation
    now,                  \* the monotonic clock
    starts,               \* number of start_capture calls that reached the buffer clear
    captured_tag,         \* for each sample of captured_audio, the cb_tag of its block
    status,               \* last "status-change" notification emitted
    emitted,              \* notifications emitted by the current/last handler run
    calls,                \* engine and collaborator calls of the current/last handler run,
                          \* start_capture followed by its result ("Ok" or "Err")
    handed,               \* None, or Some(audio) while process_audio runs on it
    entry,                \* what the current/last handler run found on entry
    drained,              \* the buffer content get_captured_audio found in the
                          \* current/last handler run
    delivered,            \* Some(concatenation of the blocks the callback accepted since
                          \* the buffer was last emptied), or None once one of them was
                          \* filtered with silence removal enabled
    session_cfg,          \* None, or Some(silence_config when the start_capture of the
                          \* open stream ran)
    prev_gate,            \* None, or Some(the counters left by the stream before the
                          \* open one, as they were when the open one was built)
    captured_format,      \* None, or Some(native format the last stream was built with)
    \* input, progress and output of a function applied on its own
    pure

engine == <<input_device, stream, is_capturing, wav_writer, start_time, silence_config,
            captured_audio, captured_tag>>
gate == <<silence_counter, is_in_silence>>
cb == <<cb_pc, cb_data, cb_keep, cb_tag>>
app == <<recording_semaphore, permit_held, recording_start, overlay_visible>>
obs == <<status, emitted, calls, handed, entry>>
hist == <<drained, delivered, session_cfg, prev_gate, captured_format>>
main == <<app, engine, gate, cb, hk_pc, now, starts, obs, hist>>
vars == <<main, pure>>

\* ----------------------------------------------------------- pure helpers
Abs(x) == IF x < 0 THEN -x ELSE x

RECURSIVE SumSeq(_)
SumSeq(s) == IF s = <<>> THEN 0 ELSE Head(s) + SumSeq(Tail(s))

Last(s) == s[Len(s)]

\* The samples of s whose write succeeded, in order (audio.rs 275-277).
RECURSIVE Written(_, _)
Written(s, ok) ==
    IF s = <<>> THEN <<>>
    ELSE (IF ok[1] THEN <<Head(s)>> ELSE <<>>)
         \o Written(Tail(s), [i \in 1..(Len(s) - 1) |-> ok[i + 1]])

Repeat(x, n) == [i \in 1..n |-> x]

\* Variant: the left channel alone is taken for the mono sample.
stereo_to_mono_LeftOnly(stereo_data) ==
    [i \in 1..(Len(stereo_data) \div 2) |-> stereo_data[2 * i - 1]]

\* audio.rs 25-32: one output sample per complete pair of interleaved samples.
stereo_to_mono(stereo_data) ==
    [i \in 1..(Len(stereo_data) \div 2) |->
        (stereo_data[2 * i - 1] + stereo_data[2 * i]) \div 2]

\* audio.rs 332-342: mean of every complete frame of n channels.
multi_to_mono(data, n) ==
    [i \in 1..(Len(data) \div n) |->
        SumSeq(SubSeq(data, n * (i - 1) + 1, n * i)) \div n]

\* audio.rs 15-23: samplerate::convert(..).unwrap_or_default().  The converter
\* is an external library: its result is either an error, which becomes the
\* empty vector, or a sequence whose length is the input length scaled by the
\* rate ratio.  The sample values of that sequence are taken from the input at
\* the scaled positions (the band-limited interpolation itself is not modelled).
audio_resample(data, sample_rate0, sample_rate) ==
    { <<>> } \cup
    { [i \in 1..((Len(data) * sample_rate) \div sample_rate0) |->
          data[(((i - 1) * sample_rate0) \div sample_rate) + 1]] }

\* audio.rs 328-342: the channel step of get_captured_audio.
ChannelStep(data, captured_channels, desired_channels) ==
    IF captured_channels = 2 /\ desired_channels = 1 THEN stereo_to_mono(data)
    ELSE IF captured_channels > 2 THEN multi_to_mono(data, captured_channels)
    ELSE data

\* Variant: the converter is run even when the rates are equal.
RateStep_Always(data, captured_rate, desired_rate) ==
    audio_resample(data, captured_rate, desired_rate)

\* audio.rs 344-354: the outcomes of the rate step.
RateStep(data, captured_rate, desired_rate) ==
    IF captured_rate # desired_rate
    THEN audio_resample(data, captured_rate, desired_rate)
    ELSE { data }

\* Variant: the run has to exceed min_silence_duration before samples are dropped.
GateSample_StrictRun(g, sample, cfg) ==
    IF Abs(sample) > cfg.threshold
    THEN [keep |-> Append(g.keep, sample),
          counter |-> IF g.in_silence THEN 0 ELSE g.counter,
          in_silence |-> FALSE]
    ELSE IF ~g.in_silence
    THEN IF g.counter + 1 > cfg.min_silence_duration
         THEN [keep |-> g.keep, counter |-> g.counter + 1, in_silence |-> TRUE]
         ELSE [keep |-> Append(g.keep, sample), counter |-> g.counter + 1,
               in_silence |-> FALSE]
    ELSE g

\* audio.rs 249-265: the silence gate applied to one sample.
\* g = [keep, counter, in_silence]
GateSample(g, sample, cfg) ==
    IF Abs(sample) > cfg.threshold
    THEN [keep |-> Append(g.keep, sample),
          counter |-> IF g.in_silence THEN 0 ELSE g.counter,
          in_silence |-> FALSE]
    ELSE IF ~g.in_silence
    THEN IF g.counter + 1 >= cfg.min_silence_duration
         THEN [keep |-> g.keep, counter |-> g.counter + 1, in_silence |-> TRUE]
         ELSE [keep |-> Append(g.keep, sample), counter |-> g.counter + 1,
               in_silence |-> FALSE]
    ELSE g

RECURSIVE GateBlock(_, _, _)
GateBlock(g, data, cfg) ==
    IF data = <<>> THEN g
    ELSE GateBlock(GateSample(g, Head(data), cfg), Tail(data), cfg)

\* Variant: the counters are created anew by every invocation of the callback.
FilterBlock_FreshCounters(data, cfg, counter, in_silence) == IF cfg.enabled THEN GateBlock([keep |-> <<>>, counter |-> 0, in_silence |-> FALSE], data, cfg) ELSE [keep |-> data, counter |-> 0, in_silence |-> FALSE]

\* audio.rs 246-268: samples_to_keep and the closure's counters after one block.
FilterBlock(data, cfg, counter, in_silence) ==
    IF cfg.enabled
    THEN GateBlock([keep |-> <<>>, counter |-> counter, in_silence |-> in_silence],
                   data, cfg)
    ELSE [keep |-> data, counter |-> counter, in_silence |-> in_silence]

\* ------------------------------------------------------------------- Init
\* main.rs 57-75 (AppState::new), audio.rs 66-84 (AudioManager::new),
\* main.rs 77-85 (configure_audio: device and remove_silence from the settings).
MainInit ==
    /\ recording_semaphore = InitialPermits
    /\ permit_held = FALSE
    /\ recording_start = None
    /\ overlay_visible = FALSE
    /\ input_device \in Devices
    /\ stream = None
    /\ is_capturing = FALSE
    /\ wav_writer = None
    /\ start_time = None
    /\ silence_config \in { [enabled |-> e, threshold |-> DefaultThreshold,
                             min_silence_duration |-> MinSilenceRun] : e \in BOOLEAN }
    /\ captured_audio = <<>>
    /\ captured_tag = <<>>
    /\ silence_counter = 0
    /\ is_in_silence = FALSE
    /\ cb_pc = "idle"
    /\ cb_data = <<>>
    /\ cb_keep = <<>>
    /\ cb_tag = 0
    /\ hk_pc = "idle"
    /\ now = 0
    /\ starts = 0
    /\ status = NoStatus
    /\ emitted = <<>>
    /\ calls = <<>>
    /\ handed = None
    /\ entry = [event |-> "none", after |-> "none", recording |-> FALSE,
                acquired |-> FALSE, buffer |-> <<>>]
    /\ drained = <<>>
    /\ delivered = Some(<<>>)
    /\ session_cfg = None
    /\ captured_format = None
    /\ prev_gate = None

Init ==
    /\ MainInit
    /\ pure = NoPure

\* ------------------------------------------------------- observation helpers
\* app_handle.emit("status-change", s)
Emit(s) ==
    /\ status' = s
    /\ emitted' = Append(emitted, s)

\* The handler is entered with event ev: the event handled before it, whether
\* a session was recording (recording_start set), whether try_acquire gave a
\* permit, and, for a release, the buffer at the moment stop_capture is called
\* (kept until the buffer is drained or the release is discarded).
Enter(ev, acq) ==
    entry' = [event |-> ev, after |-> entry.event, recording |-> recording_start # None,
              acquired |-> acq,
              buffer |-> IF ev = "release" THEN captured_audio ELSE <<>>]

\* Variant: the permit is not returned when the press branch ends.
PermitDropped_Leaked(p) == p

\* Drop of the SemaphorePermit bound to _permit at the end of its scope
\* (main.rs 177-186): tokio returns the permit to the semaphore.
PermitDropped(p) == p + 1

\* ------------------------------------------------------------ press branch
\* main.rs 175-188 up to the point where start_capture has cleared the buffer
\* (audio.rs 129-162 and 228).  try_acquire fails only when no permit is
\* available; then the branch only logs.  early_fail: default_input_config()
\* or WavWriter::create() returned an error (audio.rs 130, 156), before
\* start_capture changed anything.  save: developer.save_recordings as stored
\* in the settings file at that moment.
PressAcquire ==
    /\ hk_pc = "idle"
    /\ starts < MaxStarts
    /\ \E early_fail \in BOOLEAN, save \in BOOLEAN :
         IF recording_semaphore >= 1
         THEN /\ Enter("press", TRUE)
              /\ overlay_visible' = TRUE
              /\ calls' = IF early_fail THEN <<"start_capture", "Err">>
                                         ELSE <<"start_capture">>
              /\ emitted' = <<>>
              /\ IF early_fail
                 THEN /\ save = FALSE
                      /\ recording_semaphore' = PermitDropped(recording_semaphore - 1)
                      /\ UNCHANGED <<permit_held, hk_pc, engine, starts, cb_tag,
                                     delivered>>
                 ELSE /\ recording_semaphore' = recording_semaphore - 1
                      /\ permit_held' = TRUE
                      /\ wav_writer' = IF save THEN Some(<<>>) ELSE None
                      /\ start_time' = Some(now)
                      /\ captured_audio' = <<>>
                      /\ captured_tag' = <<>>
                      /\ delivered' = Some(<<>>)
                      /\ starts' = starts + 1
                      /\ hk_pc' = "build"
                      /\ UNCHANGED <<input_device, stream, is_capturing, silence_config,
                                     cb_tag>>
         ELSE /\ early_fail = FALSE /\ save = FALSE
              /\ Enter("press", FALSE)
              /\ calls' = <<>>
              /\ emitted' = <<>>
              /\ UNCHANGED <<recording_semaphore, permit_held, overlay_visible, hk_pc,
                             engine, starts, cb_tag, delivered>>
    /\ drained' = <<>>
    /\ UNCHANGED <<recording_start, gate, cb_pc, cb_data, cb_keep, now, status, handed,
                   session_cfg, prev_gate,
                   captured_format, pure>>

\* Variant: is_capturing is set before the stream has been built and started.
PressBuildFail_FlagSetEarly ==
    /\ hk_pc = "build"
    /\ hk_pc' = "idle"
    /\ recording_semaphore' = PermitDropped(recording_semaphore)
    /\ permit_held' = FALSE
    /\ calls' = Append(calls, "Err")
    /\ is_capturing' = TRUE
    /\ UNCHANGED <<recording_start, overlay_visible, input_device, stream, wav_writer,
                   start_time, silence_config, captured_audio, captured_tag, gate, cb, now,
                   starts, status, emitted, handed, entry, hist, pure>>

\* audio.rs 288-295 and 172: build_input_stream() or play() returned an error;
\* start_capture returns it and the press branch returns (main.rs 180-183).
PressBuildFail ==
    /\ hk_pc = "build"
    /\ hk_pc' = "idle"
    /\ recording_semaphore' = PermitDropped(recording_semaphore)
    /\ permit_held' = FALSE
    /\ calls' = Append(calls, "Err")
    /\ UNCHANGED <<recording_start, overlay_visible, engine, gate, cb, now, starts, status,
                   emitted, handed, entry, hist, pure>>

\* Variant: the counters of the gate live on from one stream to the next.
PressBuildOk_KeepsCounters ==
    /\ hk_pc = "build"
    /\ cb_pc = "idle"
    /\ stream' = Some(starts)
    /\ is_capturing' = TRUE
    /\ recording_start' = Some(now)
    /\ Emit("Listening")
    /\ calls' = Append(calls, "Ok")
    /\ recording_semaphore' = PermitDropped(recording_semaphore)
    /\ permit_held' = FALSE
    /\ hk_pc' = "idle"
    /\ session_cfg' = Some(silence_config)
    /\ captured_format' = Some(input_device)
    /\ prev_gate' = Some(<<silence_counter, is_in_silence>>)
    /\ UNCHANGED <<overlay_visible, input_device, wav_writer, start_time, silence_config,
                   captured_audio, captured_tag, gate, cb, now, starts, handed, entry,
                   drained, delivered, pure>>

\* audio.rs 170-178 and main.rs 184-186: the new stream, with fresh closure
\* counters (audio.rs 230-231), replaces self.stream (the previous stream, if
\* any, is dropped, which waits for its running callback), is_capturing
\* becomes true, recording_start is set and "Listening" is emitted.  The
\* permit bound to _permit is dropped when the branch ends.
PressBuildOk ==
    /\ hk_pc = "build"
    /\ cb_pc = "idle"
    /\ stream' = Some(starts)
    /\ silence_counter' = 0
    /\ is_in_silence' = FALSE
    /\ is_capturing' = TRUE
    /\ recording_start' = Some(now)
    /\ Emit("Listening")
    /\ calls' = Append(calls, "Ok")
    /\ recording_semaphore' = PermitDropped(recording_semaphore)
    /\ permit_held' = FALSE
    /\ hk_pc' = "idle"
    /\ session_cfg' = Some(silence_config)
    /\ captured_format' = Some(input_device)
    /\ prev_gate' = Some(<<silence_counter, is_in_silence>>)
    /\ UNCHANGED <<overlay_visible, input_device, wav_writer, start_time, silence_config,
                   captured_audio, captured_tag, cb, now, starts, handed, entry, drained,
                   delivered, pure>>

\* ---------------------------------------------------------- release branch
\* Variant: stop_capture flips is_capturing instead of clearing it.
ReleaseStopFlag_Toggle ==
    /\ hk_pc = "idle"
    /\ hk_pc' = "stop"
    /\ Enter("release", FALSE)
    /\ calls' = <<"stop_capture">>
    /\ emitted' = <<>>
    /\ is_capturing' = ~is_capturing
    /\ drained' = <<>>
    /\ UNCHANGED <<app, input_device, stream, wav_writer, start_time, silence_config,
                   captured_audio, captured_tag, gate, cb, now, starts, status, handed,
                   delivered, session_cfg, prev_gate,
                   captured_format, pure>>

\* main.rs 190-191 and audio.rs 183: the release branch locks the audio manager
\* and stop_capture first marks the engine as not capturing.
ReleaseStopFlag ==
    /\ hk_pc = "idle"
    /\ hk_pc' = "stop"
    /\ Enter("release", FALSE)
    /\ calls' = <<"stop_capture">>
    /\ emitted' = <<>>
    /\ is_capturing' = FALSE
    /\ drained' = <<>>
    /\ UNCHANGED <<app, input_device, stream, wav_writer, start_time, silence_config,
                   captured_audio, captured_tag, gate, cb, now, starts, status, handed,
                   delivered, session_cfg, prev_gate,
                   captured_format, pure>>

\* Variant: stop_capture clears the buffer.
ReleaseStopDrop_ClearsBuffer ==
    /\ hk_pc = "stop"
    /\ cb_pc = "idle"
    /\ hk_pc' = "check"
    /\ stream' = None
    /\ wav_writer' = None
    /\ start_time' = None
    /\ captured_audio' = <<>>
    /\ captured_tag' = <<>>
    /\ session_cfg' = None
    /\ prev_gate' = None
    /\ UNCHANGED <<app, input_device, is_capturing, silence_config, gate, cb, now, starts,
                   obs, drained, delivered,
                   captured_format, pure>>

\* Variant: the stream is dropped without waiting for its running callback.
ReleaseStopDrop_NoJoin ==
    /\ hk_pc = "stop"
    /\ hk_pc' = "check"
    /\ stream' = None
    /\ wav_writer' = None
    /\ start_time' = None
    /\ session_cfg' = None
    /\ prev_gate' = None
    /\ UNCHANGED <<app, input_device, is_capturing, silence_config, captured_audio,
                   captured_tag, gate, cb, now, starts, obs, drained, delivered,
                   captured_format, pure>>

\* Variant: the release branch goes from stop_capture straight to
\* get_captured_audio, without the duration check.
ReleaseStopDrop_SkipCheck ==
    /\ hk_pc = "stop"
    /\ cb_pc = "idle"
    /\ hk_pc' = "drain"
    /\ stream' = None
    /\ wav_writer' = None
    /\ start_time' = None
    /\ session_cfg' = None
    /\ prev_gate' = None
    /\ UNCHANGED <<app, input_device, is_capturing, silence_config, captured_audio,
                   captured_tag, gate, cb, now, starts, obs, drained, delivered,
                   captured_format, pure>>

\* audio.rs 186-216: the rest of stop_capture.  The stream is taken, paused and
\* dropped (which waits for its running callback), the WAV writer is taken and
\* finalized, _start_time is taken; the buffer is only measured.
ReleaseStopDrop ==
    /\ hk_pc = "stop"
    /\ cb_pc = "idle"
    /\ hk_pc' = "check"
    /\ stream' = None
    /\ wav_writer' = None
    /\ start_time' = None
    /\ session_cfg' = None
    /\ prev_gate' = None
    /\ UNCHANGED <<app, input_device, is_capturing, silence_config, captured_audio,
                   captured_tag, gate, cb, now, starts, obs, drained, delivered,
                   captured_format, pure>>

\* Variant: the short recording is not discarded (no early return).
ReleaseCheck_NoDiscard ==
    /\ hk_pc = "check"
    /\ recording_start' = None
    /\ Emit("Transcribing")
    /\ hk_pc' = "drain"
    /\ UNCHANGED <<recording_semaphore, permit_held, overlay_visible, engine, gate, cb, now,
                   starts, calls, handed, entry, hist, pure>>

\* Variant: the duration check reads recording_start without taking it.
ReleaseCheck_Peek ==
    /\ hk_pc = "check"
    /\ IF recording_start # None /\ now - Value(recording_start) < MIN_RECORDING_DURATION
       THEN /\ Emit("Ready")
            /\ overlay_visible' = FALSE
            /\ hk_pc' = "idle"
            /\ entry' = [entry EXCEPT !.buffer = <<>>]
       ELSE /\ Emit("Transcribing")
            /\ hk_pc' = "drain"
            /\ UNCHANGED <<overlay_visible, entry>>
    /\ UNCHANGED <<recording_semaphore, permit_held, recording_start, engine, gate, cb, now,
                   starts, calls, handed, hist, pure>>

\* main.rs 193-204: recording_start is taken; a recording shorter than
\* MIN_RECORDING_DURATION is discarded ("Ready", hide, return).  Otherwise, and
\* also when recording_start was None, "Transcribing" is emitted.
ReleaseCheck ==
    /\ hk_pc = "check"
    /\ recording_start' = None
    /\ IF recording_start # None /\ now - Value(recording_start) < MIN_RECORDING_DURATION
       THEN /\ Emit("Ready")
            /\ overlay_visible' = FALSE
            /\ hk_pc' = "idle"
            /\ entry' = [entry EXCEPT !.buffer = <<>>]
       ELSE /\ Emit("Transcribing")
            /\ hk_pc' = "drain"
            /\ UNCHANGED <<overlay_visible, entry>>
    /\ UNCHANGED <<recording_semaphore, permit_held, engine, gate, cb, now, starts, calls,
                   handed, hist, pure>>

\* Variant: the processed audio is returned without the is_empty() test.
CapturedAudioResults_NoEmptyCheck(audio_data, device, rate, channels, cfg_fail) ==
    IF cfg_fail THEN { None }
    ELSE { Some(processed) :
             processed \in RateStep(ChannelStep(audio_data, device.channels, channels),
                                    device.rate, rate) }

\* audio.rs 302-364: the results get_captured_audio can return for a non-empty
\* buffer it has drained: None when default_input_config() fails (cfg_fail) or
\* the processed audio is empty, else Some(processed audio).
CapturedAudioResults(audio_data, device, desired_sample_rate, desired_channels, cfg_fail) ==
    IF cfg_fail THEN { None }
    ELSE { IF processed = <<>> THEN None ELSE Some(processed) :
             processed \in RateStep(ChannelStep(audio_data, device.channels,
                                                desired_channels),
                                    device.rate, desired_sample_rate) }

\* Variant: get_captured_audio copies the buffer instead of draining it.
ReleaseDrain_Peek ==
    /\ hk_pc = "drain"
    /\ calls' = Append(calls, "get_captured_audio")
    /\ drained' = captured_audio
    /\ delivered' = Some(<<>>)
    /\ entry' = [entry EXCEPT !.buffer = <<>>]
    /\ \E cfg_fail \in BOOLEAN :
         \E result \in IF captured_audio = <<>> THEN { None }
                        ELSE CapturedAudioResults(captured_audio, input_device,
                                                  DesiredSampleRate, DesiredChannels,
                                                  cfg_fail) :
            /\ (captured_audio = <<>> => cfg_fail = FALSE)
            /\ IF result = None
               THEN /\ Emit("Ready")
                    /\ overlay_visible' = FALSE
                    /\ hk_pc' = "idle"
                    /\ UNCHANGED handed
               ELSE /\ handed' = result
                    /\ hk_pc' = "whisper"
                    /\ UNCHANGED <<overlay_visible, status, emitted>>
    /\ UNCHANGED <<recording_semaphore, permit_held, recording_start, engine, gate, cb,
                   now, starts, session_cfg, prev_gate,
                   captured_format, pure>>

\* main.rs 206 and 251-256, audio.rs 302-364: get_captured_audio(16000, 1).
\* An empty buffer gives None; otherwise the buffer is drained and processed.
\* None: "Ready", hide, return.  Some: the audio goes to process_audio.
ReleaseDrain ==
    /\ hk_pc = "drain"
    /\ calls' = Append(calls, "get_captured_audio")
    /\ captured_audio' = <<>>
    /\ captured_tag' = <<>>
    /\ drained' = captured_audio
    /\ delivered' = Some(<<>>)
    /\ entry' = [entry EXCEPT !.buffer = <<>>]
    /\ \E cfg_fail \in BOOLEAN :
         \E result \in IF captured_audio = <<>> THEN { None }
                        ELSE CapturedAudioResults(captured_audio, input_device,
                                                  DesiredSampleRate, DesiredChannels,
                                                  cfg_fail) :
            /\ (captured_audio = <<>> => cfg_fail = FALSE)
            /\ IF result = None
               THEN /\ Emit("Ready")
                    /\ overlay_visible' = FALSE
                    /\ hk_pc' = "idle"
                    /\ UNCHANGED handed
               ELSE /\ handed' = result
                    /\ hk_pc' = "whisper"
                    /\ UNCHANGED <<overlay_visible, status, emitted>>
    /\ UNCHANGED <<recording_semaphore, permit_held, recording_start, input_device, stream,
                   is_capturing, wav_writer, start_time, silence_config, gate, cb, now,
                   starts, session_cfg, prev_gate,
                   captured_format, pure>>

\* Outcomes of process_audio and of the text injection (main.rs 209-250).
WhisperOutcomes == { "err", "no_segments", "enigo_err", "text_err", "ok" }

\* Variant: the Err arm of process_audio returns without emitting "Ready".
ReleaseWhisper_ErrSilent ==
    /\ hk_pc = "whisper"
    /\ calls' = Append(calls, "process_audio")
    /\ \E outcome \in WhisperOutcomes :
         /\ IF outcome = "err" THEN UNCHANGED <<status, emitted>> ELSE Emit("Ready")
         /\ overlay_visible' = FALSE
         /\ hk_pc' = "idle"
         /\ IF outcome = "ok"
            THEN /\ recording_semaphore < MaxPermits
                 /\ recording_semaphore' = recording_semaphore + 1
            ELSE UNCHANGED recording_semaphore
    /\ handed' = None
    /\ UNCHANGED <<permit_held, recording_start, engine, gate, cb, now, starts, entry,
                   hist, pure>>

\* main.rs 209-261: process_audio returns; every outcome emits "Ready" and hides
\* the overlay.  Only the path on which the text was sent reaches
\* recording_semaphore.add_permits(1) (main.rs 258-261); the others return before.
ReleaseWhisper ==
    /\ hk_pc = "whisper"
    /\ calls' = Append(calls, "process_audio")
    /\ \E outcome \in WhisperOutcomes :
         /\ Emit("Ready")
         /\ overlay_visible' = FALSE
         /\ hk_pc' = "idle"
         /\ IF outcome = "ok"
            THEN /\ recording_semaphore < MaxPermits
                 /\ recording_semaphore' = recording_semaphore + 1
            ELSE UNCHANGED recording_semaphore
    /\ handed' = None
    /\ UNCHANGED <<permit_held, recording_start, engine, gate, cb, now, starts, entry,
                   hist, pure>>

\* ---------------------------------------------------------- audio callback
\* Variant: the callback does not test is_capturing.
CbEnter_NoCheck ==
    /\ stream # None
    /\ cb_pc = "idle"
    /\ \E data \in Blocks :
         /\ Len(captured_audio) + Len(data) <= MaxBuf
         /\ cb_pc' = "filter"
         /\ cb_data' = data
         /\ cb_tag' = starts
         /\ delivered' = IF delivered = None THEN None
                         ELSE Some(Value(delivered) \o data)
    /\ UNCHANGED <<app, engine, gate, cb_keep, hk_pc, now, starts, obs, drained,
                   session_cfg, prev_gate,
                   captured_format, pure>>

\* audio.rs 233-236: the audio subsystem delivers a block to the callback of
\* the open stream; the callback returns at once unless is_capturing is set.
\* cb_tag records how many start_capture calls had begun when the block arrived.
CbEnter ==
    /\ stream # None
    /\ cb_pc = "idle"
    /\ \E data \in Blocks :
         /\ Len(captured_audio) + Len(data) <= MaxBuf
         /\ IF is_capturing
            THEN /\ cb_pc' = "filter"
                 /\ cb_data' = data
                 /\ cb_tag' = starts
                 /\ delivered' = IF delivered = None THEN None
                                 ELSE Some(Value(delivered) \o data)
            ELSE UNCHANGED <<cb_pc, cb_data, cb_tag, delivered>>
    /\ UNCHANGED <<app, engine, gate, cb_keep, hk_pc, now, starts, obs, drained,
                   session_cfg, prev_gate,
                   captured_format, pure>>

\* audio.rs 238-268: the silence configuration is read under its lock and the
\* block is filtered into samples_to_keep, updating the closure's counters.
CbFilter ==
    /\ cb_pc = "filter"
    /\ LET f == FilterBlock(cb_data, silence_config, silence_counter, is_in_silence)
       IN /\ cb_keep' = f.keep
          /\ silence_counter' = f.counter
          /\ is_in_silence' = f.in_silence
    /\ cb_pc' = "write"
    /\ delivered' = IF silence_config.enabled THEN None ELSE delivered
    /\ UNCHANGED <<app, engine, cb_data, cb_tag, hk_pc, now, starts, obs, drained,
                   session_cfg, prev_gate,
                   captured_format, pure>>

\* audio.rs 270-279: every sample of samples_to_keep is passed to write_sample
\* of the WAV writer, if there is one, and every write succeeds.
CbWrite ==
    /\ cb_pc = "write"
    /\ wav_writer' = IF wav_writer = None THEN None
                     ELSE Some(Value(wav_writer) \o cb_keep)
    /\ cb_pc' = "append"
    /\ UNCHANGED <<app, input_device, stream, is_capturing, start_time, silence_config,
                   captured_audio, captured_tag, gate, cb_data, cb_keep, cb_tag, hk_pc,
                   now, starts, obs, hist, pure>>

\* Variant: the callback returns at the first write_sample that fails.
CbWriteFail_Abort ==
    /\ cb_pc = "write"
    /\ wav_writer # None
    /\ \E n \in 0..(Len(cb_keep) - 1) :
         wav_writer' = Some(Value(wav_writer) \o SubSeq(cb_keep, 1, n))
    /\ cb_pc' = "idle"
    /\ cb_data' = <<>>
    /\ cb_keep' = <<>>
    /\ UNCHANGED <<app, input_device, stream, is_capturing, start_time, silence_config,
                   captured_audio, captured_tag, gate, cb_tag, hk_pc, now, starts, obs,
                   hist, pure>>

\* audio.rs 270-279 when the file system fails: ok[i] tells whether the i-th
\* write_sample succeeded, and at least one did not.  The error is logged by
\* unwrap_or_else and the loop goes on with the next sample.
CbWriteFail ==
    /\ cb_pc = "write"
    /\ wav_writer # None
    /\ \E ok \in [1..Len(cb_keep) -> BOOLEAN] :
         /\ \E i \in 1..Len(cb_keep) : ~ok[i]
         /\ wav_writer' = Some(Value(wav_writer) \o Written(cb_keep, ok))
    /\ cb_pc' = "append"
    /\ UNCHANGED <<app, input_device, stream, is_capturing, start_time, silence_config,
                   captured_audio, captured_tag, gate, cb_data, cb_keep, cb_tag, hk_pc,
                   now, starts, obs, hist, pure>>

\* audio.rs 281-285: samples_to_keep is appended to captured_audio.
CbAppend ==
    /\ cb_pc = "append"
    /\ captured_audio' = captured_audio \o cb_keep
    /\ captured_tag' = captured_tag \o Repeat(cb_tag, Len(cb_keep))
    /\ cb_pc' = "idle"
    /\ cb_data' = <<>>
    /\ cb_keep' = <<>>
    /\ UNCHANGED <<app, input_device, stream, is_capturing, wav_writer, start_time,
                   silence_config, gate, cb_tag, hk_pc, now, starts, obs, hist, pure>>

\* ------------------------------------------------------------- environment
\* Time passes between hotkey events.
Tick ==
    /\ hk_pc = "idle"
    /\ now < MaxTime
    /\ now' = now + 1
    /\ UNCHANGED <<app, engine, gate, cb, hk_pc, starts, obs, hist, pure>>

\* main.rs 173: the hotkey callback locks the overlay before it looks at the
\* event and the guard lives until the callback returns.
overlay_lock_held == hk_pc # "idle"

\* main.rs 179 and 190: both branches lock the audio manager; the guard `audio`
\* lives until the end of its branch, in the release branch until after
\* process_audio and the text injection (main.rs 262).
audio_lock_held == hk_pc \in {"build", "stop", "check", "drain", "whisper"}

\* menu.rs 314-335 (handle_remove_silence_selection), audio.rs 298-300 and
\* 103-112: the tray menu item locks the audio manager, which the hotkey handler
\* holds for the whole of a press or release, and flips the enabled flag of the
\* silence configuration; threshold and minimum run are passed as None.
ConfigureSilence ==
    /\ ~audio_lock_held
    /\ silence_config' = [silence_config EXCEPT !.enabled = ~silence_config.enabled]
    /\ UNCHANGED <<app, input_device, stream, is_capturing, wav_writer, start_time,
                   captured_audio, captured_tag, gate, cb, hk_pc, now, starts, obs, hist,
                   pure>>

\* Names the host reports for its input devices, and the ids the tray menu can
\* pass to set_input_device (a menu built earlier may hold other spellings).
DeviceNames == {"Mic", "Line"}
RequestedNames == DeviceNames \cup {"mic"}

\* One device of host.input_devices(): what device.name() returns (None when it
\* returns an error) and the device itself.
HostEntries == [name : {None} \cup { Some(n) : n \in DeviceNames }, device : Devices]

\* Results of host.input_devices(): None for an error, else the list of devices.
HostDevices ==
    {None} \cup { Some(l) : l \in UNION { [1..n -> HostEntries] : n \in 0..MaxHostDevices } }

\* Variant: when no name matches, the first device of the host is selected.
set_input_device_Fallback(current, device_name, devices) == IF devices = None \/ Value(devices) = <<>> THEN [result |-> "Err", input_device |-> current] ELSE LET l == Value(devices) hits == { i \in DOMAIN l : l[i].name = Some(device_name) } IN [result |-> "Ok", input_device |-> l[IF hits = {} THEN 1 ELSE CHOOSE i \in hits : \A j \in hits : i <= j].device]

\* audio.rs 86-97: set_input_device(device_name).  The devices of the host are
\* walked in order, a device whose name() fails is skipped, the first one whose
\* name equals device_name becomes input_device; without one, or when the
\* enumeration itself fails, the call returns an error.
set_input_device(current, device_name, devices) ==
    IF devices = None
    THEN [result |-> "Err", input_device |-> current]
    ELSE LET l == Value(devices)
             hits == { i \in DOMAIN l : l[i].name = Some(device_name) }
         IN  IF hits = {}
             THEN [result |-> "Err", input_device |-> current]
             ELSE [result |-> "Ok",
                   input_device |-> l[CHOOSE i \in hits : \A j \in hits : i <= j].device]

\* menu.rs 286-312 (handle_audio_device_selection): the tray menu item locks
\* the audio manager and calls set_input_device with its id.
SelectDevice ==
    /\ ~audio_lock_held
    /\ \E device_name \in RequestedNames, devices \in HostDevices :
         input_device' = set_input_device(input_device, device_name, devices).input_device
    /\ UNCHANGED <<app, stream, is_capturing, wav_writer, start_time, silence_config,
                   captured_audio, captured_tag, gate, cb, hk_pc, now, starts, obs, hist,
                   pure>>

Next ==
    \/ PressAcquire
    \/ PressBuildFail
    \/ PressBuildOk
    \/ ReleaseStopFlag
    \/ ReleaseStopDrop
    \/ ReleaseCheck
    \/ ReleaseDrain
    \/ ReleaseWhisper
    \/ CbEnter
    \/ CbFilter
    \/ CbWrite
    \/ CbAppend
    \/ Tick

Spec == Init /\ [][Next]_vars

\* The hotkey and audio callbacks together with the tray menu item that
\* switches silence removal on and off.
NextMenu ==
    \/ Next
    \/ ConfigureSilence

SpecMenu == Init /\ [][NextMenu]_vars

\* The hotkey and audio callbacks with a file system on which writes to the
\* recording can fail.
NextSink ==
    \/ Next
    \/ CbWriteFail

SpecSink == Init /\ [][NextSink]_vars

\* The hotkey and audio callbacks together with the tray menu items that
\* select the input device.
NextDevice ==
    \/ Next
    \/ SelectDevice

SpecDevice == Init /\ [][NextDevice]_vars

\* ------------------------------------------------- the silence gate on its own
\* The per-sample loop of the callback (audio.rs 248-265) run over one input
\* sequence with the counters of a newly built stream (audio.rs 230-231), one
\* sample per step.  pure.kept records for every sample processed so far
\* whether it was pushed to samples_to_keep.
GateAmps == {-2, 0, 1, 2}

GateInputs == UNION { [1..n -> GateAmps] : n \in 0..MaxGateLen }

GateCfg == [enabled |-> TRUE, threshold |-> DefaultThreshold,
            min_silence_duration |-> MinSilenceRun]

InitGate ==
    /\ MainInit
    /\ pure \in { [kind |-> "gate", input |-> in, kept |-> <<>>,
                    g |-> [keep |-> <<>>, counter |-> 0, in_silence |-> FALSE]] :
                  in \in GateInputs }

GateStep ==
    /\ pure.kind = "gate"
    /\ Len(pure.kept) < Len(pure.input)
    /\ LET g2 == GateSample(pure.g, pure.input[Len(pure.kept) + 1], GateCfg)
       IN pure' = [pure EXCEPT !.g = g2,
                               !.kept = Append(@, Len(g2.keep) > Len(pure.g.keep))]
    /\ UNCHANGED main

NextGate == GateStep

SpecGate == InitGate /\ [][NextGate]_vars

\* ------------------------------------------- the callback over several blocks
\* The filtering and the append of the callback (audio.rs 238-268, 281-285)
\* run over one sample sequence that arrives cut into three blocks (a block
\* may be empty); silence_counter and is_in_silence are the variables the
\* closure captured at audio.rs 230-231, pure.keep is what reached the buffer.
SplitInputs == UNION { [1..n -> Amps] : n \in 1..MaxGateLen }

InitSplit ==
    /\ MainInit
    /\ pure \in { [kind |-> "split", input |-> in, cuts |-> <<k1, k2, Len(in)>>,
                    enabled |-> e, block |-> 0, keep |-> <<>>, counter |-> 0,
                    in_silence |-> FALSE] :
                  in \in SplitInputs, k1 \in 0..MaxGateLen, k2 \in 0..MaxGateLen,
                  e \in BOOLEAN }
    /\ pure.cuts[1] <= pure.cuts[2]
    /\ pure.cuts[2] <= pure.cuts[3]

\* Number of samples of the input delivered once b blocks have been processed.
SplitDelivered(b) == IF b = 0 THEN 0 ELSE pure.cuts[b]

SplitCfg == [enabled |-> pure.enabled, threshold |-> DefaultThreshold,
             min_silence_duration |-> MinSilenceRun]

SplitStep ==
    /\ pure.kind = "split"
    /\ pure.block < Len(pure.cuts)
    /\ LET data == SubSeq(pure.input, SplitDelivered(pure.block) + 1,
                          SplitDelivered(pure.block + 1))
           f == FilterBlock(data, SplitCfg, pure.counter, pure.in_silence)
       IN  pure' = [pure EXCEPT !.block = @ + 1, !.keep = @ \o f.keep,
                                !.counter = f.counter, !.in_silence = f.in_silence]
    /\ UNCHANGED main

NextSplit == SplitStep

SpecSplit == InitSplit /\ [][NextSplit]_vars

\* ------------------------------------------------------- the mutexes on their own
\* The order in which the hotkey callback, the tray-menu handlers and the audio
\* callback lock and unlock the mutexes of AppState (main.rs 48-54) and of
\* AudioManager (audio.rs 55-64).  Every handler is the list of its lock
\* operations in program order; Join is the drop of a stream, which waits
\* until no callback of that stream is running.
Threads == {"hotkey", "menu", "callback"}

Mutexes == {"overlay", "audio", "recording_start", "is_capturing", "silence_config",
            "wav_writer", "start_time", "captured_audio"}

Acq(m) == [op |-> "acq", m |-> m]
Rel(m) == [op |-> "rel", m |-> m]
Join == [op |-> "join", m |-> "none"]

\* A guard that is a temporary of one statement: locked and unlocked at once.
Temp(m) == <<Acq(m), Rel(m)>>

\* audio.rs 129-179: start_capture up to the failing or the last statement.
StartCaptureEarlyErr == <<>>
StartCaptureBuildErr == Temp("wav_writer") \o Temp("start_time") \o Temp("captured_audio")
StartCaptureOk == StartCaptureBuildErr \o <<Join>> \o Temp("is_capturing")

\* audio.rs 181-216: stop_capture.
StopCapture ==
    Temp("is_capturing") \o <<Join>> \o Temp("wav_writer") \o Temp("start_time")
        \o Temp("captured_audio")

\* Variant: stop_capture drops the stream while it holds the buffer.
HotkeyPrograms_JoinUnderBufferLock == { <<Acq("overlay"), Acq("audio"), Acq("captured_audio"), Join, Rel("captured_audio"), Rel("audio"), Rel("overlay")>> }

\* main.rs 171-264: the hotkey callback.  Press without a permit; press with
\* start_capture failing early, failing in the stream build, succeeding;
\* release of a too short session; release that goes on to the drain.
HotkeyPrograms ==
    { <<Acq("overlay"), Rel("overlay")>>,
      <<Acq("overlay"), Acq("audio")>> \o StartCaptureEarlyErr
          \o <<Rel("audio"), Rel("overlay")>>,
      <<Acq("overlay"), Acq("audio")>> \o StartCaptureBuildErr
          \o <<Rel("audio"), Rel("overlay")>>,
      <<Acq("overlay"), Acq("audio")>> \o StartCaptureOk \o Temp("recording_start")
          \o <<Rel("audio"), Rel("overlay")>>,
      <<Acq("overlay"), Acq("audio")>> \o StopCapture
          \o <<Acq("recording_start"), Rel("recording_start"), Rel("audio"),
               Rel("overlay")>>,
      <<Acq("overlay"), Acq("audio")>> \o StopCapture \o Temp("recording_start")
          \o Temp("captured_audio") \o <<Rel("audio"), Rel("overlay")>> }

\* menu.rs 286-312 and 314-335, audio.rs 103-116: the device item locks the
\* audio manager; the silence item locks it and, twice, the silence
\* configuration.
MenuPrograms ==
    { <<Acq("audio"), Rel("audio")>>,
      <<Acq("audio")>> \o Temp("silence_config") \o Temp("silence_config")
          \o <<Rel("audio")>> }

\* audio.rs 233-286: the audio callback, returning at once or processing.
CallbackPrograms ==
    { Temp("is_capturing"),
      Temp("is_capturing") \o Temp("silence_config") \o Temp("wav_writer")
          \o Temp("captured_audio") }

Programs(t) ==
    IF t = "hotkey" THEN HotkeyPrograms
    ELSE IF t = "menu" THEN MenuPrograms
    ELSE CallbackPrograms

InitLocks ==
    /\ MainInit
    /\ pure = [kind |-> "locks", owner |-> [m \in Mutexes |-> "none"],
               prog |-> [t \in Threads |-> <<>>], pc |-> [t \in Threads |-> 1]]

Running(t) == pure.pc[t] <= Len(pure.prog[t])

NextOp(t) == pure.prog[t][pure.pc[t]]

\* A handler is invoked.
LockBegin ==
    /\ pure.kind = "locks"
    /\ \E t \in Threads : \E p \in Programs(t) :
         /\ ~Running(t)
         /\ pure' = [pure EXCEPT !.prog[t] = p, !.pc[t] = 1]
    /\ UNCHANGED main

\* Mutex::lock(): returns once the mutex is free.
LockAcquire ==
    /\ pure.kind = "locks"
    /\ \E t \in Threads :
         /\ Running(t)
         /\ NextOp(t).op = "acq"
         /\ pure.owner[NextOp(t).m] = "none"
         /\ pure' = [pure EXCEPT !.owner[NextOp(t).m] = t, !.pc[t] = @ + 1]
    /\ UNCHANGED main

\* Drop of a MutexGuard.
LockRelease ==
    /\ pure.kind = "locks"
    /\ \E t \in Threads :
         /\ Running(t)
         /\ NextOp(t).op = "rel"
         /\ pure' = [pure EXCEPT !.owner[NextOp(t).m] = "none", !.pc[t] = @ + 1]
    /\ UNCHANGED main

\* Drop of a stream: waits for the running callback.
LockJoin ==
    /\ pure.kind = "locks"
    /\ \E t \in Threads :
         /\ Running(t)
         /\ NextOp(t).op = "join"
         /\ ~Running("callback")
         /\ pure' = [pure EXCEPT !.pc[t] = @ + 1]
    /\ UNCHANGED main

NextLocks ==
    \/ LockBegin
    \/ LockAcquire
    \/ LockRelease
    \/ LockJoin

SpecLocks == InitLocks /\ [][NextLocks]_vars

\* ------------------------------------------------------ the settings file
\* JSON values as far as load_config looks at them: a scalar (leaf) or an
\* object, a function from its keys to values.
Leaf(v) == [t |-> "leaf", v |-> v, f |-> [k \in {} |-> 0]]
Obj(f) == [t |-> "obj", v |-> 0, f |-> f]

\* config.rs 112-193: serde_json::to_value(&T::default()), reduced to two
\* scalar settings at the top level and the audio section with two settings.
DefaultValue ==
    Obj([k \in {"audio", "start_at_login"} |->
           IF k = "audio"
           THEN Obj([j \in {"remove_silence", "recordings_dir"} |-> Leaf(1)])
           ELSE Leaf(0)])

\* Scalars a settings file may hold.
ConfigVals == {0, 1}

ConfigLeaves == { Leaf(v) : v \in ConfigVals }

\* What a settings file may hold for the audio section: a scalar, or an object
\* with some of the settings of the section.
StoredSections ==
    ConfigLeaves \cup
    { Obj(f) : f \in UNION { [K -> ConfigLeaves] :
                               K \in SUBSET {"remove_silence", "recordings_dir"} } }

\* Contents of a settings file that parses as JSON: an object with some of the
\* top-level keys and possibly a key that no setting has, or a scalar.
StoredValues ==
    { Leaf(0) } \cup
    { Obj(f) : f \in { g \in UNION { [K -> StoredSections] :
                                       K \in SUBSET {"audio", "start_at_login", "legacy"} } :
                        \A k \in DOMAIN g : k # "audio" => g[k] \in ConfigLeaves } }

\* Variant: the merge adds missing keys at the top level only.
RECURSIVE merge_json_values_Shallow(_, _)
merge_json_values_Shallow(stored, default) == IF stored.t = "obj" /\ default.t = "obj" THEN [value |-> Obj([k \in DOMAIN stored.f \cup DOMAIN default.f |-> IF k \in DOMAIN stored.f THEN stored.f[k] ELSE default.f[k]]), missing |-> DOMAIN default.f \ DOMAIN stored.f # {}] ELSE [value |-> stored, missing |-> FALSE]

\* config.rs 82-110: merge_json_values(stored, default), giving the merged
\* value and had_missing_fields.
RECURSIVE merge_json_values(_, _)
merge_json_values(stored, default) ==
    IF stored.t = "obj" /\ default.t = "obj"
    THEN LET stored_map == stored.f
             default_map == default.f
             absent == DOMAIN default_map \ DOMAIN stored_map
             sub(k) == merge_json_values(stored_map[k], default_map[k])
             filled == { k \in DOMAIN default_map \cap DOMAIN stored_map :
                           default_map[k].t = "obj" /\ sub(k).missing }
         IN  [value |-> Obj([k \in DOMAIN stored_map \cup DOMAIN default_map |->
                               IF k \in absent THEN default_map[k]
                               ELSE IF k \in filled THEN sub(k).value
                               ELSE stored_map[k]]),
              missing |-> absent # {} \/ filled # {}]
    ELSE [value |-> stored, missing |-> FALSE]

\* serde_json::from_value::<T> (config.rs 65, 69): succeeds when the value has
\* every field of T with the kind T expects; fields T does not have are ignored.
RECURSIVE Conforms(_, _)
Conforms(value, default) ==
    /\ value.t = default.t
    /\ value.t = "obj" =>
          \A k \in DOMAIN default.f :
              k \in DOMAIN value.f /\ Conforms(value.f[k], default.f[k])

RECURSIVE TypedFields(_, _)
TypedFields(value, default) ==
    IF value.t = "obj"
    THEN Obj([k \in DOMAIN default.f |-> TypedFields(value.f[k], default.f[k])])
    ELSE value

from_value(value) ==
    IF Conforms(value, DefaultValue) THEN Some(TypedFields(value, DefaultValue)) ELSE None

\* config.rs 47-71: load_config for a settings file that does not exist
\* (None) or holds a JSON value.  result is the configuration returned (None
\* for Err), file the settings file afterwards, missing whether missing
\* fields were reported, merged the merged value.
load_config(file) ==
    IF file = None
    THEN [result |-> from_value(DefaultValue), file |-> Some(DefaultValue),
          missing |-> FALSE, merged |-> DefaultValue]
    ELSE LET m == merge_json_values(Value(file), DefaultValue)
         IN  [result |-> from_value(m.value),
              file |-> IF m.missing /\ from_value(m.value) # None
                       THEN from_value(m.value) ELSE file,
              missing |-> m.missing, merged |-> m.value]

InitConfig ==
    /\ MainInit
    /\ pure \in { [kind |-> "config", stored |-> f, file |-> f, loads |-> <<>>] :
                  f \in {None} \cup { Some(v) : v \in StoredValues } }

\* Number of consecutive load_config calls looked at.
ConfigLoads == 2

ConfigLoad ==
    /\ pure.kind = "config"
    /\ Len(pure.loads) < ConfigLoads
    /\ LET r == load_config(pure.file)
       IN  pure' = [pure EXCEPT !.file = r.file, !.loads = Append(@, r)]
    /\ UNCHANGED main

NextConfig == ConfigLoad

SpecConfig == InitConfig /\ [][NextConfig]_vars

\* ---------------------------------------------- a menu toggle and the settings
\* menu.rs 314-335 (handle_remove_silence_selection; 286-312, 337-383 and
\* 419-441 have the same shape): the handler starts from
\* WhisprConfig::default(), replaces it by the loaded configuration if
\* load_config returns Ok, sets its one field and saves the result.
persist_remove_silence(file, new_state) ==
    LET loaded == load_config(file).result
        whispr_config == IF loaded # None THEN Value(loaded) ELSE DefaultValue
    IN  Some([whispr_config EXCEPT !.f["audio"].f["remove_silence"] = Leaf(new_state)])

InitToggle ==
    /\ MainInit
    /\ pure \in { [kind |-> "toggle", stored |-> Some(v), file |-> Some(v),
                    new_state |-> n, done |-> FALSE] :
                  v \in StoredValues, n \in ConfigVals }

ToggleApply ==
    /\ pure.kind = "toggle"
    /\ ~pure.done
    /\ pure' = [pure EXCEPT !.done = TRUE,
                            !.file = persist_remove_silence(pure.file, pure.new_state)]
    /\ UNCHANGED main

NextToggle == ToggleApply

SpecToggle == InitToggle /\ [][NextToggle]_vars

\* ------------------------------------------------- the channel step on its own
\* The channel step of get_captured_audio (audio.rs 325-342) applied to one
\* drained buffer, for a native channel count and a desired channel count.
\* The amplitudes are multiples of every channel count, so that the means are
\* whole numbers.
MixAmps == {-60, 0, 120}

MixInputs == UNION { [1..n -> MixAmps] : n \in 1..MaxMixLen }

InitMix ==
    /\ MainInit
    /\ pure \in { [kind |-> "mix", data |-> d, channels |-> c, desired |-> w,
                    out |-> None] :
                  d \in MixInputs, c \in 1..MaxChannels, w \in 1..MaxChannels }

MixApply ==
    /\ pure.kind = "mix"
    /\ pure.out = None
    /\ pure' = [pure EXCEPT !.out = Some(ChannelStep(pure.data, pure.channels,
                                                     pure.desired))]
    /\ UNCHANGED main

NextMix == MixApply

SpecMix == InitMix /\ [][NextMix]_vars

\* -------------------------------------------- get_captured_audio on its own
\* get_captured_audio(rate, channels) on a non-empty buffer (audio.rs 307-363),
\* for a native format of the device and a desired format; cfg_fail records
\* whether default_input_config() returned an error.
DrainRates == {16000, 48000}

InitDrain ==
    /\ MainInit
    /\ pure \in { [kind |-> "drain", data |-> d, device |-> [rate |-> r, channels |-> c],
                    rate |-> dr, channels |-> dc, cfg_fail |-> FALSE, done |-> FALSE,
                    result |-> None] :
                  d \in MixInputs, r \in DrainRates, c \in 1..MaxChannels,
                  dr \in DrainRates, dc \in {1, 2} }

DrainApply ==
    /\ pure.kind = "drain"
    /\ ~pure.done
    /\ \E cfg_fail \in BOOLEAN :
         \E result \in CapturedAudioResults(pure.data, pure.device, pure.rate,
                                              pure.channels, cfg_fail) :
            pure' = [pure EXCEPT !.cfg_fail = cfg_fail, !.done = TRUE,
                                 !.result = result]
    /\ UNCHANGED main

NextDrain == DrainApply

SpecDrain == InitDrain /\ [][NextDrain]_vars

\* ---------------------------------------------- set_input_device on its own
\* set_input_device (audio.rs 86-97) applied once to a selected device, a
\* requested name and a result of the enumeration of the host.
InitSelect ==
    /\ MainInit
    /\ pure \in { [kind |-> "select", current |-> input_device, device_name |-> n,
                   devices |-> ds, done |-> FALSE, result |-> "none",
                   input_device |-> input_device] :
                  n \in RequestedNames, ds \in HostDevices }

SelectApply ==
    /\ pure.kind = "select"
    /\ ~pure.done
    /\ LET r == set_input_device(pure.current, pure.device_name, pure.devices)
       IN  pure' = [pure EXCEPT !.done = TRUE, !.result = r.result,
                                !.input_device = r.input_device]
    /\ UNCHANGED main

NextSelect == SelectApply

SpecSelect == InitSelect /\ [][NextSelect]_vars

\* ------------------------------------------------------------ type invariant
TypeOK ==
    /\ recording_semaphore \in 0..MaxPermits
    /\ permit_held \in BOOLEAN
    /\ recording_start \in {None} \cup { Some(t) : t \in 0..MaxTime }
    /\ overlay_visible \in BOOLEAN
    /\ input_device \in Devices
    /\ stream \in {None} \cup { Some(n) : n \in 1..MaxStarts }
    /\ is_capturing \in BOOLEAN
    /\ wav_writer # None => Len(Value(wav_writer)) <= MaxBuf
    /\ start_time \in {None} \cup { Some(t) : t \in 0..MaxTime }
    /\ Len(captured_audio) <= MaxBuf
    /\ Len(captured_tag) = Len(captured_audio)
    /\ cb_pc \in {"idle", "filter", "write", "append"}
    /\ hk_pc \in {"idle", "build", "stop", "check", "drain", "whisper"}
    /\ status \in {NoStatus, "Listening", "Transcribing", "Ready"}
    /\ Len(drained) <= MaxBuf
    /\ delivered # None => Len(Value(delivered)) <= MaxBuf
    /\ session_cfg # None <=> stream # None
    /\ prev_gate # None <=> stream # None
    /\ captured_format \in {None} \cup { Some(d) : d \in Devices }
    /\ pure.kind \in {"none", "gate", "mix", "drain", "select", "split", "locks",
                    "config", "toggle"}

\* ------------------------------------------------------- session predicates
\* A press has started capture and its release has not been handled yet.
Recording == hk_pc = "idle" /\ recording_start # None

\* No session: nothing recorded, the engine neither capturing nor holding a stream.
Idle == hk_pc = "idle" /\ recording_start = None /\ ~is_capturing /\ stream = None

\* The engine state stop_capture leaves behind (audio.rs 183-205).
EngineIdle == ~is_capturing /\ stream = None /\ wav_writer = None /\ start_time = None

Outstanding == IF permit_held THEN 1 ELSE 0

\* The current/last handler run has made the call c.
Called(c) == \E i \in 1..Len(calls) : calls[i] = c

IsPrefix(s, t) == Len(s) <= Len(t) /\ SubSeq(t, 1, Len(s)) = s

\* ------------------------------------------------------------------ claims

\* C1: while a session is Recording, a further press is a no-op: it does not
\* acquire the recording permit, does not call start_capture, and leaves the
\* session's captured_audio, stream and recording_start unchanged.
C1_PressWhileRecordingIsNoop ==
    [][(Recording /\ PressAcquire) =>
         /\ ~entry'.acquired
         /\ calls' = <<>>
         /\ hk_pc' = "idle"
         /\ UNCHANGED <<captured_audio, stream, recording_start>>]_vars

\* C2: recording_semaphore is a single-slot token: available permits plus the
\* outstanding permit never exceed one.
C2_SingleSlotSemaphore == recording_semaphore + Outstanding <= 1

\* C3: a release while Recording whose elapsed time is below
\* MIN_RECORDING_DURATION emits "Ready" and returns to Idle, and its handling
\* neither drains the buffer (get_captured_audio) nor calls process_audio.
C3_ShortRecordingDiscarded ==
    [][(/\ hk_pc = "check"
        /\ recording_start # None
        /\ now - Value(recording_start) < MIN_RECORDING_DURATION) =>
         /\ emitted' = <<"Ready">>
         /\ status' = "Ready"
         /\ Idle'
         /\ calls' = <<"stop_capture">>
         /\ handed' = None
         /\ UNCHANGED captured_audio]_vars

\* A too short recording that had captured samples has been discarded.
C3_Witness ==
    /\ hk_pc = "idle"
    /\ entry.event = "release"
    /\ entry.recording
    /\ emitted = <<"Ready">>
    /\ calls = <<"stop_capture">>
    /\ captured_audio # <<>>

\* C4: a release received while Idle is a no-op: it emits no status
\* notification, does not drain the buffer and never calls process_audio.
C4_ReleaseWhileIdleIsNoop ==
    (entry.event = "release" /\ ~entry.recording) =>
        /\ emitted = <<>>
        /\ ~Called("get_captured_audio")
        /\ ~Called("process_audio")

C6_ReleaseEndsReady ==
    (hk_pc = "idle" /\ entry.event = "release") =>
        (emitted # <<>> /\ Last(emitted) = "Ready" /\ status = "Ready")

\* A release has been handled through drain and transcription.
C6_Witness ==
    /\ hk_pc = "idle"
    /\ entry.event = "release"
    /\ calls = <<"stop_capture", "get_captured_audio", "process_audio">>
    /\ emitted = <<"Transcribing", "Ready">>

\* C7: a press whose start_capture returns an error does not start a session:
\* no step of it emits a status, sets recording_start or sets is_capturing, so
\* after a failed press from Idle recording_start is unset and the engine does
\* not report capturing.
C7_FailedStartStartsNothing ==
    /\ [][(PressAcquire \/ PressBuildFail) =>
             (emitted' = <<>> /\ UNCHANGED <<status, recording_start, is_capturing>>)]_vars
    /\ []((entry.event = "press" /\ ~entry.recording /\ calls # <<>>
              /\ Last(calls) = "Err") =>
            (recording_start = None /\ ~is_capturing /\ stream = None))

\* A press from Idle failed after start_capture had installed its writer and
\* _start_time (the stream could not be built or started).
C7_Witness ==
    /\ hk_pc = "idle"
    /\ entry.event = "press"
    /\ ~entry.recording
    /\ calls = <<"start_capture", "Err">>
    /\ start_time # None
    /\ recording_start = None
    /\ ~is_capturing

\* C8: after every successful start_capture the buffer holds no sample
\* captured before that start: while a stream is open, every sample of
\* captured_audio arrived after the start_capture that opened it had begun.
C8_NoSampleFromBeforeStart ==
    stream # None => \A i \in 1..Len(captured_tag) : captured_tag[i] >= Value(stream)

\* C9 as claimed: the buffer seen by a drain after stop equals the buffer at
\* the moment stop_capture was called.
C9_DrainSeesBufferAtStopCall ==
    hk_pc \in {"check", "drain"} => captured_audio = entry.buffer

\* C9 amended: no step of stop_capture changes captured_audio, and nothing
\* changes it between the return of stop_capture and the drain; while
\* stop_capture runs, only the callback that had already passed its
\* is_capturing check can still append its block, so the buffer a drain sees
\* extends the buffer at the moment stop was called by at most one block.  The
\* buffer loses samples only in start_capture and in get_captured_audio.
C9_StopKeepsBuffer ==
    /\ [][/\ ((ReleaseStopFlag \/ ReleaseStopDrop) => UNCHANGED captured_audio)
           /\ (hk_pc = "check" => UNCHANGED captured_audio)
           /\ (~IsPrefix(captured_audio, captured_audio') =>
                 (PressAcquire \/ ReleaseDrain))]_vars
    /\ [](hk_pc \in {"stop", "check", "drain"} =>
            (/\ IsPrefix(entry.buffer, captured_audio)
             /\ Len(captured_audio) - Len(entry.buffer) <= MaxBlock))

\* A drain is about to see a buffer to which a block was appended while
\* stop_capture ran.
C9_Witness ==
    /\ hk_pc = "drain"
    /\ entry.buffer # <<>>
    /\ captured_audio # entry.buffer

\* C10: stop_capture is idempotent: called on an engine that is already idle
\* (a second call, or a release while Idle), it leaves is_capturing false, no
\* stream, no writer, no _start_time, and the buffer as it was; and every
\* stop_capture returns with the engine in that state.
C10_StopIdempotent ==
    /\ [][((ReleaseStopFlag \/ ReleaseStopDrop) /\ EngineIdle) =>
             (EngineIdle' /\ UNCHANGED <<captured_audio, captured_tag>>)]_vars
    /\ [](hk_pc = "check" => EngineIdle)

\* stop_capture has returned from a second consecutive call, with the buffer
\* of the discarded session still in place.
C10_Witness ==
    /\ hk_pc = "check"
    /\ entry.event = "release"
    /\ entry.after = "release"
    /\ ~entry.recording
    /\ captured_audio # <<>>


\* ---------------------------------------------------------------------------
\* C11: get_captured_audio returns None when the buffer is empty, for every
\* device format and silence setting, and whatever it returns it leaves the
\* buffer empty, so that a drain repeated at once finds nothing and returns None.
C11_DrainLeavesBufferEmpty ==
    /\ [][ReleaseDrain =>
            /\ captured_audio' = <<>>
            /\ (captured_audio = <<>> =>
                   (hk_pc' = "idle" /\ handed' = None /\ status' = "Ready"))]_vars
    /\ [](Called("get_captured_audio") => captured_audio = <<>>)

\* The only session was released and transcribed, which drained its audio and
\* added a permit; the release that followed that drain called
\* get_captured_audio on the empty buffer and got None.
C11_Witness ==
    /\ hk_pc = "idle"
    /\ starts = 1
    /\ recording_semaphore = InitialPermits + 1
    /\ entry.event = "release" /\ entry.after = "release"
    /\ calls = <<"stop_capture", "get_captured_audio">>
    /\ drained = <<>>
    /\ emitted = <<"Transcribing", "Ready">>
    /\ handed = None

\* ---------------------------------------------------------------------------
\* C12: when the channel and rate steps turn a non-empty drained buffer into an
\* empty sequence (a failed resampling included), get_captured_audio returns
\* None and the release ends as for an empty capture: "Ready" is emitted, the
\* overlay is hidden and process_audio is not called.  Audio that is handed to
\* process_audio is never empty.
C12_EmptyTransformIsNoAudio ==
    [][(ReleaseDrain /\ captured_audio # <<>>) =>
         LET processed == RateStep(ChannelStep(captured_audio, input_device.channels,
                                               DesiredChannels),
                                   input_device.rate, DesiredSampleRate)
         IN /\ (processed = { <<>> } => hk_pc' = "idle")
            /\ (hk_pc' = "idle" =>
                   /\ emitted' = Append(emitted, "Ready")
                   /\ status' = "Ready"
                   /\ ~overlay_visible'
                   /\ handed' = None
                   /\ calls' = <<"stop_capture", "get_captured_audio">>)
            /\ (hk_pc' # "idle" =>
                   /\ hk_pc' = "whisper"
                   /\ handed' # None
                   /\ Value(handed') # <<>>
                   /\ Value(handed') \in processed)]_vars

\* One sample was drained from a stereo device, which has no complete frame:
\* the release ended with "Ready" without calling process_audio.
C12_Witness ==
    /\ hk_pc = "idle"
    /\ Len(drained) = 1
    /\ input_device.channels = 2
    /\ calls = <<"stop_capture", "get_captured_audio">>
    /\ emitted = <<"Transcribing", "Ready">>
    /\ ~overlay_visible

\* ---------------------------------------------------------------------------
\* C13 as claimed: in every interleaving of the callback with start_capture
\* and stop_capture, samples are appended to the buffer only while
\* is_capturing is true, and a callback invoked while not capturing does not
\* go on to filter, write or append.
C13_AppendOnlyWhileCapturing ==
    [][/\ (Len(captured_audio') > Len(captured_audio) => is_capturing)
       /\ ((cb_pc = "idle" /\ ~is_capturing) => cb_pc' = "idle")]_vars

\* C13 amended: a callback goes on to filter, write and append only if
\* is_capturing was true when it was invoked; a callback invoked while not
\* capturing changes neither the buffer nor the writer nor the gate counters.
\* A callback that passed the test before stop_capture cleared the flag still
\* completes while stop_capture is shutting the stream down, so a block can
\* be appended with is_capturing false, but only then.  The buffer grows
\* only by the append of a callback, the gate counters change only in its
\* filter step or when a stream is built, and the writer is written only in
\* its write step and replaced only by start_capture and stop_capture.
C13_AppendOnlyAfterCapturingTest ==
    /\ [][/\ ((cb_pc = "idle" /\ ~is_capturing) => cb_pc' = "idle")
           /\ (Len(captured_audio') > Len(captured_audio) =>
                 (CbAppend /\ (is_capturing \/ hk_pc = "stop")))
           /\ (gate' # gate => (CbFilter \/ PressBuildOk))
           /\ (wav_writer' # wav_writer =>
                 (CbWrite \/ CbWriteFail \/ PressAcquire \/ ReleaseStopDrop))]_vars
    /\ [](cb_pc # "idle" => (is_capturing \/ hk_pc = "stop"))

\* While stop_capture runs with is_capturing already false, a callback that
\* had passed the test has appended its block.
C13_Witness ==
    /\ hk_pc = "stop"
    /\ ~is_capturing
    /\ cb_pc = "idle"
    /\ IsPrefix(entry.buffer, captured_audio)
    /\ Len(captured_audio) > Len(entry.buffer)

\* ---------------------------------------------------------------------------
\* C14: once stop_capture has returned there is no stream and no running
\* callback, so nothing is appended: the buffer stays as it is until the next
\* start_capture clears it or get_captured_audio drains it.
C14_NoAppendAfterStop ==
    /\ [][(stream = None /\ captured_audio' # captured_audio) =>
             (PressAcquire \/ ReleaseDrain)]_vars
    /\ [](stream = None => cb_pc = "idle")
    /\ [](hk_pc \in {"check", "drain", "whisper"} => stream = None)

\* stop_capture has returned and the drain has not begun: the buffer holds
\* exactly the blocks the callback accepted during the session.
C14_Witness ==
    /\ hk_pc = "drain"
    /\ stream = None
    /\ captured_audio # <<>>
    /\ delivered = Some(captured_audio)

\* ---------------------------------------------------------------------------
\* C15: with silence removal disabled, after any sequence of blocks delivered
\* to the callback during a capture session the buffer is the concatenation
\* of all those blocks, in delivery order, nothing dropped or duplicated
\* (compared whenever no callback is in the middle of a block and no
\* start_capture is under way).
C15_DisabledGateKeepsEverything ==
    (delivered # None /\ cb_pc = "idle" /\ hk_pc # "build") =>
        captured_audio = Value(delivered)

\* ---------------------------------------------------------------------------
\* The sample at position i of the gate's input exceeds the threshold.
Loud(i) == Abs(pure.input[i]) > GateCfg.threshold

\* Positions s..j of the gate's input are a run of samples at or below the
\* threshold that starts right after a sample above it, or at the start.
QuietRun(s, j) ==
    /\ s <= j
    /\ (s = 1 \/ Loud(s - 1))
    /\ \A i \in s..j : ~Loud(i)

\* C16: with silence removal enabled, threshold T and minimum run D, a sample
\* whose absolute amplitude exceeds T is always kept; in a run of samples at or
\* below T that immediately follows non-silence, the D-th sample is dropped and
\* so is every later sample of the run, until a sample exceeds T.  With
\* T = 0.1 and D = 3 the input 0.5, 0.05, 0.05, 0.05, 0.05, 0.5 (in hundredths:
\* 50, 5, 5, 5, 5, 50 with T = 10) keeps exactly the samples 0, 1, 2 and 5.
C16_GateDropsFromDthQuietSample ==
    pure.kind = "gate" =>
        /\ \A i \in 1..Len(pure.kept) : Loud(i) => pure.kept[i]
        /\ \A s \in 1..Len(pure.kept) : \A j \in s..Len(pure.kept) :
              (QuietRun(s, j) /\ j - s + 1 >= GateCfg.min_silence_duration) =>
                  ~pure.kept[j]
        /\ FilterBlock(<<50, 5, 5, 5, 5, 50>>,
                       [enabled |-> TRUE, threshold |-> 10, min_silence_duration |-> 3],
                       0, FALSE).keep = <<50, 5, 5, 50>>

\* A loud sample, then a quiet run longer than the minimum run (one of its
\* samples exactly at the threshold), then a loud negative sample: the run is
\* kept up to its D-th sample and the loud samples are kept.
C16_Witness ==
    /\ pure.kind = "gate"
    /\ Len(pure.kept) = Len(pure.input)
    /\ \E s \in 2..Len(pure.input) :
         LET e == s + GateCfg.min_silence_duration
         IN /\ e + 1 = Len(pure.input)
            /\ QuietRun(s, e)
            /\ \E i \in s..e : pure.input[i] = GateCfg.threshold
            /\ pure.input[e + 1] < 0 /\ Loud(e + 1)
            /\ \A i \in s..e : pure.kept[i] <=> (i - s + 1 < GateCfg.min_silence_duration)
            /\ pure.kept[s - 1] /\ pure.kept[e + 1]

\* ---------------------------------------------------------------------------
\* C17: calling configure_silence_removal while a session is capturing does
\* not change how the gate behaves in that session: every callback of a
\* session filters its block with the enabled flag, threshold and minimum run
\* that were in force when the start_capture of that session ran.
C17_SessionUsesConfigAtStart ==
    [][(CbFilter /\ session_cfg # None) =>
         LET f == FilterBlock(cb_data, Value(session_cfg), silence_counter, is_in_silence)
         IN /\ cb_keep' = f.keep
            /\ silence_counter' = f.counter
            /\ is_in_silence' = f.in_silence]_vars

\* ---------------------------------------------------------------------------
\* C18: the counters of the gate belong to one session: whatever the
\* previous session left in them, every stream that start_capture opens starts
\* with silence_counter 0 and is_in_silence false, and they stay so until the
\* first callback of the session filters its block.
C18_GateFreshPerSession ==
    [][/\ (PressBuildOk => (silence_counter' = 0 /\ ~is_in_silence'))
       /\ ((stream' # stream /\ stream' # None) =>
             (silence_counter' = 0 /\ ~is_in_silence'))
       /\ ((gate' # gate /\ ~PressBuildOk) => (cb_pc = "filter" /\ cb_pc' = "write"))]_vars

\* The previous session ended inside a silent run; the first callback of the
\* next session is about to filter its block and finds the counters at 0
\* and false.
C18_Witness ==
    /\ prev_gate = Some(<<MinSilenceRun, TRUE>>)
    /\ Value(stream) = 2
    /\ entry.event = "press" /\ entry.after = "release" /\ ~entry.recording
    /\ cb_pc = "filter"
    /\ delivered = Some(cb_data)
    /\ captured_audio = <<>>
    /\ silence_counter = 0
    /\ ~is_in_silence

\* ---------------------------------------------------------------------------
\* C19: the downmix of get_captured_audio.  With a stereo device and mono
\* desired, output sample i is (L_i + R_i) / 2 of frame i.  With more than two
\* native channels every output sample is the mean of one complete frame.
\* The output has floor(n / channel count) samples: the samples of an
\* incomplete last frame are discarded.
C19_DownmixAveragesFrames ==
    (pure.kind = "mix" /\ pure.out # None) =>
        LET out == Value(pure.out)
            d == pure.data
            c == pure.channels
        IN /\ (c = 2 /\ pure.desired = 1) =>
                  /\ Len(out) = Len(d) \div 2
                  /\ \A i \in 1..Len(out) : 2 * out[i] = d[2 * i - 1] + d[2 * i]
           /\ (c > 2) =>
                  /\ Len(out) = Len(d) \div c
                  /\ \A i \in 1..Len(out) :
                        c * out[i] = SumSeq([k \in 1..c |-> d[c * (i - 1) + k]])

\* Three native channels, one complete frame of unequal samples followed by
\* an incomplete one: the output is the single mean of the complete frame.
C19_Witness ==
    /\ pure.kind = "mix"
    /\ pure.channels = 3
    /\ Len(pure.data) = 5
    /\ pure.data[1] # pure.data[2]
    /\ pure.out # None
    /\ Len(Value(pure.out)) = 1
    /\ Value(pure.out)[1] # 0

\* ---------------------------------------------------------------------------
\* C20: when the native channel count equals the desired channel count, for
\* one, two and more than two channels, get_captured_audio performs no channel
\* step: the sequence handed to the rate step is the drained buffer unchanged.
C20_EqualChannelsNoStep ==
    (pure.kind = "mix" /\ pure.out # None /\ pure.channels = pure.desired) =>
        Value(pure.out) = pure.data

\* ---------------------------------------------------------------------------
\* C21 as claimed: whenever the native sample rate equals the desired sample
\* rate, the output of get_captured_audio is the drained buffer itself, same
\* samples in the same order.
C21_EqualRateReturnsBuffer ==
    (pure.kind = "drain" /\ pure.done /\ pure.device.rate = pure.rate) =>
        pure.result = Some(pure.data)

\* C21 amended: whenever the native sample rate equals the desired sample
\* rate no resampling is applied: audio that get_captured_audio returns is
\* exactly the output of the channel step, which is the drained buffer itself
\* for a mono device; it returns that audio whenever the format query succeeds
\* and the channel step leaves at least one sample, and None otherwise.
C21_EqualRateReturnsChannelStep ==
    (pure.kind = "drain" /\ pure.done /\ pure.device.rate = pure.rate) =>
        LET mixed == ChannelStep(pure.data, pure.device.channels, pure.channels)
        IN /\ (pure.result # None => Value(pure.result) = mixed)
           /\ ((pure.result # None /\ pure.device.channels = 1) =>
                  Value(pure.result) = pure.data)
           /\ ((~pure.cfg_fail /\ mixed # <<>>) => pure.result = Some(mixed))
           /\ ((pure.cfg_fail \/ mixed = <<>>) => pure.result = None)

\* Three samples were drained from a stereo device whose rate is the desired
\* one: the audio returned is the one averaged frame, not the buffer.
C21_Witness ==
    /\ pure.kind = "drain"
    /\ pure.done
    /\ pure.device = [rate |-> DesiredSampleRate, channels |-> 2]
    /\ pure.rate = DesiredSampleRate /\ pure.channels = DesiredChannels
    /\ Len(pure.data) = 3
    /\ pure.result # None
    /\ Len(Value(pure.result)) = 1

\* ---------------------------------------------------------------------------
\* C22: a write_sample that fails inside the callback is logged and skipped
\* and capture goes on: whatever the writes did, the callback goes on to
\* append all of samples_to_keep to the buffer, and the write step changes
\* nothing that this or a later callback reads (the flag, the stream, the gate
\* counters, the buffer).
C22_SinkFailureKeepsAudio ==
    [][/\ ((CbWrite \/ CbWriteFail) =>
             /\ cb_pc' = "append"
             /\ UNCHANGED <<cb_data, cb_keep, captured_audio, gate, is_capturing, stream,
                            silence_config>>)
       /\ (CbAppend => captured_audio' = captured_audio \o cb_keep)
       /\ ((cb_pc = "write" /\ cb_pc' # "write") => cb_pc' = "append")]_vars

\* In the first session, recorded to a file with silence removal off, a write
\* has failed: the file holds fewer samples than the buffer, which holds
\* every block delivered.
C22_Witness ==
    /\ starts = 1
    /\ stream # None
    /\ cb_pc = "idle"
    /\ wav_writer # None
    /\ Len(Value(wav_writer)) < Len(captured_audio)
    /\ delivered = Some(captured_audio)
    /\ Len(captured_audio) = MaxBuf

\* ---------------------------------------------------------------------------
\* C23: while process_audio runs the hotkey handler holds no lock: neither
\* the audio manager nor the overlay is locked, and a tray-menu operation that
\* needs the audio manager can take its step.
C23_NoLockHeldWhileTranscribing ==
    hk_pc = "whisper" =>
        /\ ~audio_lock_held
        /\ ~overlay_lock_held
        /\ ENABLED ConfigureSilence

\* ---------------------------------------------------------------------------
\* C24: the WAV sink is open only between a start_capture and the following
\* stop_capture: in every Idle state, also after a start_capture that returned
\* an error, no sink is open.
C24_NoSinkWhenIdle ==
    Idle => wav_writer = None

\* ---------------------------------------------------------------------------
\* C25: set_input_device with a name no device of the host reports returns an
\* error and leaves the selected device as it was; with a name a device reports
\* exactly, it selects a device of that name and returns Ok.
C25_SelectByExactName ==
    (pure.kind = "select" /\ pure.done) =>
        LET l == IF pure.devices = None THEN <<>> ELSE Value(pure.devices)
            named == { i \in DOMAIN l : l[i].name = Some(pure.device_name) }
        IN  /\ named = {} => /\ pure.result = "Err"
                             /\ pure.input_device = pure.current
            /\ named # {} => /\ pure.result = "Ok"
                             /\ \E i \in named :
                                  /\ pure.input_device = l[i].device
                                  /\ \A j \in named : i <= j

\* A device is selected that differs from the current one and stands behind a
\* device whose name could not be read.
C25_Witness ==
    /\ pure.kind = "select" /\ pure.done
    /\ pure.result = "Ok"
    /\ pure.input_device # pure.current
    /\ Len(Value(pure.devices)) = 2
    /\ Value(pure.devices)[1].name = None

\* ---------------------------------------------------------------------------
\* C26: the release branch runs stop_capture, then the duration check, then
\* get_captured_audio, then the transcription, in this order; the engine is
\* not capturing when the buffer is drained, and the transcription runs only
\* when get_captured_audio returned Some.
C26_ReleaseOrder ==
    [][/\ ReleaseStopFlag => (hk_pc = "idle" /\ hk_pc' = "stop")
       /\ ReleaseStopDrop => (hk_pc = "stop" /\ hk_pc' = "check")
       /\ ReleaseCheck => (hk_pc = "check" /\ hk_pc' \in {"drain", "idle"})
       /\ ReleaseDrain =>
             /\ hk_pc = "drain"
             /\ ~is_capturing /\ stream = None
             /\ hk_pc' \in {"whisper", "idle"}
             /\ hk_pc' = "whisper" <=> handed' # None
             /\ calls' = <<"stop_capture", "get_captured_audio">>
       /\ ReleaseWhisper =>
             /\ hk_pc = "whisper" /\ hk_pc' = "idle"
             /\ handed # None
             /\ calls' = <<"stop_capture", "get_captured_audio", "process_audio">>
       /\ hk_pc' = "stop" => hk_pc \in {"idle", "stop"}
       /\ hk_pc' = "check" => hk_pc \in {"stop", "check"}
       /\ hk_pc' = "drain" => hk_pc \in {"check", "drain"}
       /\ hk_pc' = "whisper" => hk_pc \in {"drain", "whisper"}]_vars

\* The release of a session that lasted long enough has stopped the capture,
\* passed the duration check and drained audio that process_audio now works on.
C26_Witness ==
    /\ hk_pc = "whisper"
    /\ entry.event = "release" /\ entry.recording
    /\ calls = <<"stop_capture", "get_captured_audio">>
    /\ handed # None
    /\ Len(drained) = MaxBuf

\* ---------------------------------------------------------------------------
\* C27: recording_start is set exactly by a press whose start_capture
\* succeeded, and only the duration check of a release clears it; every release
\* clears it, so that it stays set from a successful press until the next
\* release is handled and is unset once a release has been handled.
C27_RecordingStartLifecycle ==
    [][/\ PressBuildOk => recording_start' = Some(now)
       /\ (recording_start' # None /\ recording_start' # recording_start) =>
             /\ hk_pc = "build" /\ hk_pc' = "idle"
             /\ calls' = <<"start_capture", "Ok">>
             /\ stream' # None /\ is_capturing'
       /\ (hk_pc = "build" /\ hk_pc' = "idle" /\ stream' = stream) =>
             UNCHANGED recording_start
       /\ ReleaseCheck => recording_start' = None
       /\ (recording_start # None /\ recording_start' = None) => hk_pc = "check"
       /\ (entry'.event = "release" /\ hk_pc' \in {"idle", "drain", "whisper"}) =>
             recording_start' = None]_vars

\* The release of a running session has been handled to its end.
C27_Witness ==
    /\ hk_pc = "idle"
    /\ entry.event = "release" /\ entry.recording
    /\ calls = <<"stop_capture", "get_captured_audio", "process_audio">>
    /\ recording_start = None

\* ---------------------------------------------------------------------------
\* C28: in each invocation of the callback the kept samples are appended to
\* the buffer first and written to the sink second: the filtering is followed
\* by the append, the append by the write, and whenever the sink takes the
\* samples of a block the buffer already holds them.
C28_BufferBeforeSink ==
    [][/\ CbFilter => UNCHANGED <<captured_audio, wav_writer>>
       /\ (CbWrite /\ wav_writer # None) =>
             /\ Len(captured_audio) >= Len(cb_keep)
             /\ SubSeq(captured_audio, Len(captured_audio) - Len(cb_keep) + 1,
                       Len(captured_audio)) = cb_keep
             /\ UNCHANGED captured_audio
             /\ cb_pc' = "idle"
       /\ CbAppend => UNCHANGED wav_writer]_vars

\* ---------------------------------------------------------------------------
\* C29: audio is handed to process_audio only by the release of a session that
\* was recording when the release arrived (and so passed the duration check);
\* what a too short session left in the buffer is never handed over by a later
\* release.
C29_OnlyReleasedSessionTranscribed ==
    handed # None => (entry.event = "release" /\ entry.recording)

\* ---------------------------------------------------------------------------
\* C30: get_captured_audio converts the buffer from the native format of the
\* stream that captured it, also when another input device was selected from
\* the tray menu between start_capture and the drain.
C30_DrainUsesCaptureFormat ==
    [][(ReleaseDrain /\ captured_audio # <<>> /\ captured_format # None) =>
          \E cfg_fail \in BOOLEAN :
             handed' \in CapturedAudioResults(captured_audio, Value(captured_format),
                                              DesiredSampleRate, DesiredChannels,
                                              cfg_fail)]_vars

\* ---------------------------------------------------------------------------
\* C31: while the gate is not in silence, silence_counter is the length of the
\* run of samples at or below the threshold that ends at the last sample
\* processed; quiet samples separated by a loud one do not add up, so the
\* first min_silence_duration - 1 samples of every quiet run that follows a
\* loud sample are kept.
C31_CounterIsRunLength ==
    pure.kind = "gate" =>
        LET n == Len(pure.kept)
            run == Cardinality({ i \in 1..n : \A k \in i..n : ~Loud(k) })
        IN  /\ ~pure.g.in_silence => pure.g.counter = run
            /\ \A s \in 2..n : \A j \in s..n :
                  (QuietRun(s, j) /\ j - s + 1 < GateCfg.min_silence_duration) =>
                      pure.kept[j]

\* ---------------------------------------------------------------------------
\* C32: with an unchanged silence configuration, what a session retains
\* depends only on the concatenation of the blocks delivered, not on where
\* the blocks are cut: after every block the buffer and the counters of the
\* gate are what one callback over all samples delivered so far would give.
C32_SplitIndependent ==
    pure.kind = "split" =>
        LET whole == FilterBlock(SubSeq(pure.input, 1, SplitDelivered(pure.block)),
                                 SplitCfg, 0, FALSE)
        IN  /\ pure.keep = whole.keep
            /\ pure.counter = whole.counter
            /\ pure.in_silence = whole.in_silence

\* Three non-empty blocks with silence removal enabled; the first cut lies
\* inside a quiet run that is long enough to be dropped from, the second
\* inside the silence, and a loud sample ends it in the last block.
C32_Witness ==
    /\ pure.kind = "split"
    /\ pure.block = Len(pure.cuts)
    /\ pure.enabled
    /\ 0 < pure.cuts[1] /\ pure.cuts[1] < pure.cuts[2] /\ pure.cuts[2] < pure.cuts[3]
    /\ \A i \in pure.cuts[1]..(pure.cuts[2] + 1) : pure.input[i] = 0
    /\ pure.input[Len(pure.input)] # 0
    /\ Len(pure.keep) < Len(pure.input)
    /\ ~pure.in_silence

\* ---------------------------------------------------------------------------
\* The thread that t waits for: the owner of the mutex t is about to lock, or
\* the callback whose end a stream drop waits for; "none" when t can go on.
WaitsFor(t) ==
    IF t = "none" \/ ~Running(t) THEN "none"
    ELSE IF NextOp(t).op = "acq" THEN pure.owner[NextOp(t).m]
    ELSE IF NextOp(t).op = "join" /\ Running("callback") THEN "callback"
    ELSE "none"

RECURSIVE WaitChain(_, _)
WaitChain(t, n) == IF n = 0 THEN t ELSE WaitChain(WaitsFor(t), n - 1)

Held(t) == { m \in Mutexes : pure.owner[m] = t }

\* The order of the mutexes: overlay, then the audio manager, then one of the
\* others.
LockRank(m) == IF m = "overlay" THEN 1 ELSE IF m = "audio" THEN 2 ELSE 3

\* C33: no interleaving of the hotkey callback, a tray-menu handler and the
\* audio callback deadlocks: no thread waits for itself or in a circle, every
\* thread locks the mutexes in the one order overlay, audio manager, other,
\* and the audio callback holds at most one mutex at a time.
C33_NoDeadlock ==
    pure.kind = "locks" =>
        /\ \A t \in Threads : WaitChain(t, Cardinality(Threads)) = "none"
        /\ \A t \in Threads :
              (Running(t) /\ NextOp(t).op = "acq") =>
                  \A h \in Held(t) : LockRank(h) < LockRank(NextOp(t).m)
        /\ Cardinality(Held("callback")) <= 1
        /\ \A t \in Threads : ~Running(t) => Held(t) = {}

\* The menu handler waits for the audio manager, which the hotkey callback
\* holds while its stop_capture waits for the audio callback, which holds the
\* buffer.
C33_Witness ==
    /\ pure.kind = "locks"
    /\ WaitsFor("menu") = "hotkey"
    /\ WaitsFor("hotkey") = "callback"
    /\ NextOp("hotkey").op = "join"
    /\ Held("callback") = {"captured_audio"}
    /\ Held("hotkey") = {"overlay", "audio"}

\* ---------------------------------------------------------------------------
\* a is b with some of its elements left out, the others in their order.
RECURSIVE IsSubseq(_, _)
IsSubseq(a, b) ==
    IF a = <<>> THEN TRUE
    ELSE IF b = <<>> THEN FALSE
    ELSE IF Head(a) = Head(b) THEN IsSubseq(Tail(a), Tail(b))
    ELSE IsSubseq(a, Tail(b))

\* C34: in every reachable state the buffer is an order-preserving
\* subsequence of the samples delivered to the callback since the last
\* start_capture, also while callbacks interleave with start_capture,
\* stop_capture and get_captured_audio.
C34_BufferIsSubsequenceOfDelivered ==
    delivered # None => IsSubseq(captured_audio, Value(delivered))

\* ---------------------------------------------------------------------------
\* C35: the status notifications form a repetition of "Listening", then
\* optionally "Transcribing", then "Ready": "Listening" follows only "Ready"
\* (or nothing), "Transcribing" follows only "Listening", and "Ready" follows
\* only "Listening" or "Transcribing".
C35_StatusSequence ==
    [][Len(emitted') = Len(emitted) + 1 =>
          /\ status' = "Listening" => status \in {NoStatus, "Ready"}
          /\ status' = "Transcribing" => status = "Listening"
          /\ status' = "Ready" => status \in {"Listening", "Transcribing"}]_vars

\* ---------------------------------------------------------------------------
\* C36: the overlay is visible only while a session is Recording or its
\* release is being handled: it is hidden after every handled release, and a
\* press whose start_capture fails does not leave it visible.
C36_OverlayOnlyWhileSession ==
    (hk_pc = "idle" /\ overlay_visible) => recording_start # None

\* ---------------------------------------------------------------------------
\* The stored value has, for every setting it holds, the kind of value the
\* configuration expects there.
RECURSIVE WellTyped(_, _)
WellTyped(stored, default) ==
    /\ stored.t = default.t
    /\ stored.t = "obj" =>
          \A k \in DOMAIN default.f \cap DOMAIN stored.f :
              WellTyped(stored.f[k], default.f[k])

\* Some setting of the configuration, at the top level or inside a section
\* that is stored, is not in the stored value.
RECURSIVE LacksKey(_, _)
LacksKey(stored, default) ==
    /\ default.t = "obj"
    /\ \E k \in DOMAIN default.f :
          \/ k \notin DOMAIN stored.f
          \/ LacksKey(stored.f[k], default.f[k])

\* Every stored setting of the value has its stored value in the
\* configuration, every other setting its default.
RECURSIVE StoredElseDefault(_, _, _)
StoredElseDefault(config, stored, default) ==
    IF default.t = "obj"
    THEN /\ config.t = "obj"
         /\ DOMAIN config.f = DOMAIN default.f
         /\ \A k \in DOMAIN default.f :
               IF k \in DOMAIN stored.f
               THEN StoredElseDefault(config.f[k], stored.f[k], default.f[k])
               ELSE config.f[k] = default.f[k]
    ELSE config = stored

KeptSetting(old, new, k) ==
    IF old.f[k].t = "leaf"
    THEN new.f[k] = old.f[k]
    ELSE \A j \in DOMAIN old.f[k].f \cap DOMAIN DefaultValue.f[k].f :
            (k = "audio" /\ j = "remove_silence") \/ new.f[k].f[j] = old.f[k].f[j]

\* C38: a tray-menu toggle persists a configuration that differs from the
\* one stored before only in the toggled field, whether or not the stored
\* file could be loaded: every other setting the file stored keeps its value.
C38_ToggleChangesOnlyItsField ==
    (pure.kind = "toggle" /\ pure.done /\ Value(pure.stored).t = "obj") =>
        LET old == Value(pure.stored)
            new == Value(pure.file)
        IN  /\ new.f["audio"].f["remove_silence"] = Leaf(pure.new_state)
            /\ \A k \in DOMAIN old.f \cap DOMAIN DefaultValue.f :
                  old.f[k].t = DefaultValue.f[k].t => KeptSetting(old, new, k)

====
